---- MODULE Spec2Model ----
(***************************************************************************)
(* Model of fuelprice.py: the FuelPrice class (get_fuel_prices,            *)
(* get_fuel_data, parse_data, get_date) and its class-level field          *)
(* _publication_date.                                                      *)
(*                                                                         *)
(* Python strings are sequences of one-character strings.  Python's None   *)
(* is the empty sequence and a present value v is <<v>>.  The data handed  *)
(* to parse_data is modelled by the DOM that xml.dom.minidom builds from   *)
(* it: the list of update_date elements and the list of item elements,     *)
(* each item being the list of its child nodes (Element or Text).          *)
(***************************************************************************)
EXTENDS Integers, Sequences, FiniteSets, TLC

VARIABLES publication_date, op, response, data, fuels, exc, printed, date

vars == <<publication_date, op, response, data, fuels, exc, printed, date>>

(* ---------------------------- bounds ----------------------------------- *)
MaxItems == 2
MaxNodes == 2
MaxLen == 5

(* ---------------------------- Python values ---------------------------- *)
None == <<>>
Some(v) == <<v>>

URL == <<"h", "t", "t", "p", "s">>

SeqsUpTo(S, n) == UNION {[1..k -> S] : k \in 0..n}

(* ---------------------------- str methods ------------------------------ *)
Lowers == <<"a","b","c","d","e","f","g","h","i","j","k","l","m",
            "n","o","p","q","r","s","t","u","v","w","x","y","z">>
Uppers == <<"A","B","C","D","E","F","G","H","I","J","K","L","M",
            "N","O","P","Q","R","S","T","U","V","W","X","Y","Z">>

IsLower(c) == \E i \in 1..Len(Lowers) : Lowers[i] = c
IsUpper(c) == \E i \in 1..Len(Uppers) : Uppers[i] = c
IsCased(c) == IsLower(c) \/ IsUpper(c)
ToUpper(c) == IF IsLower(c) THEN Uppers[CHOOSE i \in 1..Len(Lowers) : Lowers[i] = c] ELSE c
ToLower(c) == IF IsUpper(c) THEN Lowers[CHOOSE i \in 1..Len(Uppers) : Uppers[i] = c] ELSE c

\* str.replace(old, new): leftmost, non-overlapping occurrences, one pass
RECURSIVE Replace(_, _, _)
Replace(s, old, new) ==
    IF Len(s) < Len(old) THEN s
    ELSE IF SubSeq(s, 1, Len(old)) = old
         THEN new \o Replace(SubSeq(s, Len(old) + 1, Len(s)), old, new)
         ELSE <<s[1]>> \o Replace(Tail(s), old, new)

\* str.endswith(suffix)
EndsWith(s, suffix) ==
    /\ Len(s) >= Len(suffix)
    /\ SubSeq(s, Len(s) - Len(suffix) + 1, Len(s)) = suffix

\* str.title(): a cased character is upper-cased after an uncased one (or at
\* the start) and lower-cased after a cased one
RECURSIVE TitleFrom(_, _)
TitleFrom(s, prevCased) ==
    IF s = <<>> THEN <<>>
    ELSE IF IsCased(s[1])
         THEN <<IF prevCased THEN ToLower(s[1]) ELSE ToUpper(s[1])>> \o TitleFrom(Tail(s), TRUE)
         ELSE <<s[1]>> \o TitleFrom(Tail(s), FALSE)

Title(s) == TitleFrom(s, FALSE)

\* the clean-up of the fuel name, as a variant that forgets the trailing ' S'
CleanTypeNoSuffix(t) ==
    Title(Replace(Replace(t, <<" ", "S", " ">>, <<" ">>), <<" ", "E", "V", "O">>, <<>>))

\* the clean-up of the fuel name ('type' attribute)
CleanType(t) ==
    LET fueltype == Replace(Replace(t, <<" ", "S", " ">>, <<" ">>), <<" ", "E", "V", "O">>, <<>>)
        stripped == IF EndsWith(fueltype, <<" ", "S">>)
                    THEN SubSeq(fueltype, 1, Len(fueltype) - 2)
                    ELSE fueltype
    IN Title(stripped)

(* ---------------------------- DOM -------------------------------------- *)
Text(s) == [nodeType |-> "TEXT", nodeValue |-> s]
Element(tag, children) == [nodeType |-> "ELEMENT", tagName |-> tag, childNodes |-> children]
\* an element holding one text node, and an element with no content
Elem(tag, s) == Element(tag, <<Text(s)>>)
EmptyElem(tag) == Element(tag, <<>>)

HasTagName(node) == node.nodeType = "ELEMENT"

Xml(update_dates, items) ==
    [kind |-> "xml", update_date |-> update_dates, item |-> items]
Malformed == [kind |-> "malformed", update_date |-> <<>>, item |-> <<>>]
Empty == [kind |-> "empty", update_date |-> <<>>, item |-> <<>>]

(* ---------------------------- dictionaries ----------------------------- *)
EmptyDict == [k \in {} |-> <<>>]
Put(d, key, value) == [k \in DOMAIN d \cup {key} |-> IF k = key THEN value ELSE d[k]]

(* ---------------------------- parse_data ------------------------------- *)
SkippedTagsImageOnly == {"image"}

SkippedTags == {"image", "image2"}

\* the loop over element.childNodes; stops at the first node that raises
RECURSIVE BuildFuel(_, _, _)
BuildFuel(nodes, i, fuel) ==
    IF i > Len(nodes) THEN [exc |-> "none", fuel |-> fuel]
    ELSE IF ~HasTagName(nodes[i]) THEN [exc |-> "AttributeError", fuel |-> fuel]
    ELSE IF nodes[i].tagName \in SkippedTags THEN BuildFuel(nodes, i + 1, fuel)
    ELSE IF nodes[i].childNodes = <<>> THEN [exc |-> "AttributeError", fuel |-> fuel]
    ELSE BuildFuel(nodes, i + 1, Put(fuel, nodes[i].tagName, nodes[i].childNodes[1].nodeValue))

\* one pass of the loop over the item elements
FuelOf(element) ==
    LET built == BuildFuel(element, 1, EmptyDict)
    IN IF built.exc # "none" THEN built
       ELSE IF "type" \in DOMAIN built.fuel
            THEN [exc |-> "none", fuel |-> Put(built.fuel, "type", CleanType(built.fuel["type"]))]
            ELSE built

RECURSIVE ParseItems(_, _, _)
ParseItems(elements, i, acc) ==
    IF i > Len(elements) THEN [exc |-> "none", fuels |-> acc]
    ELSE LET f == FuelOf(elements[i])
         IN IF f.exc # "none" THEN [exc |-> f.exc, fuels |-> <<>>]
            ELSE ParseItems(elements, i + 1, Append(acc, f.fuel))

\* a variant that stores the date only when every record was built
ParseDataDateLast(d, old) ==
    IF d.kind # "xml" THEN [exc |-> "ExpatError", fuels |-> <<>>, publication_date |-> old]
    ELSE IF d.update_date = <<>>
         THEN [exc |-> "IndexError", fuels |-> <<>>, publication_date |-> old]
    ELSE IF d.update_date[1].childNodes = <<>>
         THEN [exc |-> "AttributeError", fuels |-> <<>>, publication_date |-> old]
    ELSE LET r == ParseItems(d.item, 1, <<>>)
         IN [exc |-> r.exc, fuels |-> r.fuels,
             publication_date |-> IF r.exc = "none"
                                  THEN Some(d.update_date[1].childNodes[1].nodeValue)
                                  ELSE old]

\* parse_data(data) called when the class field holds old: the exception
\* raised (or "none"), the list returned, and the class field afterwards
ParseData(d, old) ==
    IF d.kind # "xml" THEN [exc |-> "ExpatError", fuels |-> <<>>, publication_date |-> old]
    ELSE IF d.update_date = <<>>
         THEN [exc |-> "IndexError", fuels |-> <<>>, publication_date |-> old]
    ELSE IF d.update_date[1].childNodes = <<>>
         THEN [exc |-> "AttributeError", fuels |-> <<>>, publication_date |-> old]
    ELSE LET r == ParseItems(d.item, 1, <<>>)
         IN [exc |-> r.exc, fuels |-> r.fuels,
             publication_date |-> Some(d.update_date[1].childNodes[1].nodeValue)]

(* ---------------------------- get_fuel_data ---------------------------- *)
\* a variant that treats only error statuses (>= 400) as failures
GetFuelDataErrorsOnly(resp) ==
    IF resp.status_code >= 400
    THEN [printed |-> <<[status_code |-> resp.status_code, url |-> URL]>>, data |-> None]
    ELSE [printed |-> <<>>, data |-> Some(resp.content)]

\* get_fuel_data(): the lines printed and the value returned
GetFuelData(resp) ==
    IF resp.status_code # 200
    THEN [printed |-> <<[status_code |-> resp.status_code, url |-> URL]>>, data |-> None]
    ELSE [printed |-> <<>>, data |-> Some(resp.content)]

\* 'not data' for the value returned by get_fuel_data
Falsy(d) == d = None \/ d[1].kind = "empty"

(* ---------------------------- inputs ----------------------------------- *)
Gasohol91S == <<"G","a","s","o","h","o","l"," ","9","1"," ","S">>
Gasohol91 == <<"G","a","s","o","h","o","l"," ","9","1">>
DieselEVO == <<"D","i","e","s","e","l"," ","E","V","O">>
Diesel == <<"D","i","e","s","e","l">>
gasohol_e20 == <<"g","a","s","o","h","o","l"," ","e","2","0">>
GasoholE20 == <<"G","a","s","o","h","o","l"," ","E","2","0">>
Price == <<"3","0",".","5","0">>
Price2 == <<"3","0",".","0","0">>
ImageUrl == <<"u","r","l">>
Date1 == <<"d","1">>
Date2 == <<"d","2">>

\* the child nodes an item is built from
Nodes ==
    { Elem("type", Gasohol91S), Elem("type", <<" ", "E", "V", "O">>),
      Elem("today", Price), Elem("today", Price2), EmptyElem("today"),
      EmptyElem("image"), Elem("image2", ImageUrl), Text(<<"\n">>) }

UpdateDates ==
    { <<>>, <<EmptyElem("update_date")>>, <<Elem("update_date", Date1)>>,
      <<Elem("update_date", Date2), Elem("update_date", Date1)>> }

Items == SeqsUpTo(Nodes, MaxNodes)

\* the items that surround the item under study
FillerItems ==
    { <<Elem("type", Gasohol91S), Elem("today", Price)>>,
      <<Elem("today", Price2), Elem("image2", ImageUrl)>> }
InsertAt(s, k, x) == SubSeq(s, 1, k - 1) \o <<x>> \o SubSeq(s, k, Len(s))
\* lists of up to MaxItems items: any item at any position among filler items
ItemLists ==
    {<<>>} \cup UNION {{InsertAt(rest, k, it) : k \in 1..(Len(rest) + 1), it \in Items} :
                         rest \in SeqsUpTo(FillerItems, MaxItems - 1)}

\* documents that vary the structure
StructDocs == {Xml(u, its) : u \in UpdateDates, its \in ItemLists}

\* documents that vary the text of the type element
Alphabet == {" ", "S", "s", "E", "V", "O"}
TypeTexts == (SeqsUpTo(Alphabet, MaxLen) \ {<<>>}) \cup {Gasohol91S, DieselEVO, gasohol_e20}
TypeDocs == {Xml(<<Elem("update_date", Date1)>>, <<<<Elem("type", t), Elem("today", Price)>>>>) : t \in TypeTexts}

\* the data of the stateful specification
SampleItems ==
    { <<Elem("type", Gasohol91S), Elem("today", Price)>>,
      <<Elem("type", DieselEVO), EmptyElem("today")>>,
      <<Text(<<"\n">>), Elem("type", DieselEVO)>> }
SampleData ==
    {Xml(u, its) : u \in UpdateDates, its \in SeqsUpTo(SampleItems, MaxItems)} \cup {Malformed, Empty}
StatusCodes == {200, 204, 404}
Responses == [status_code : StatusCodes, content : SampleData]

(* ---------------------------- operations ------------------------------- *)
\* a direct call FuelPrice.parse_data(d)
CallParseData(d) ==
    LET r == ParseData(d, publication_date)
    IN /\ op' = "parse_data"
       /\ response' = None
       /\ data' = Some(d)
       /\ fuels' = r.fuels
       /\ exc' = r.exc
       /\ publication_date' = r.publication_date
       /\ printed' = <<>>
       /\ date' = None

\* FuelPrice.get_fuel_prices() when the web service answers resp
GetFuelPrices(resp) ==
    LET fetched == GetFuelData(resp)
    IN /\ op' = "get_fuel_prices"
       /\ response' = Some(resp)
       /\ printed' = fetched.printed
       /\ date' = None
       /\ IF Falsy(fetched.data)
          THEN /\ data' = None
               /\ fuels' = <<>>
               /\ exc' = "none"
               /\ UNCHANGED publication_date
          ELSE LET r == ParseData(fetched.data[1], publication_date)
               IN /\ data' = fetched.data
                  /\ fuels' = r.fuels
                  /\ exc' = r.exc
                  /\ publication_date' = r.publication_date

\* FuelPrice.get_date()
GetDate ==
    /\ op' = "get_date"
    /\ date' = publication_date
    /\ response' = None
    /\ data' = None
    /\ fuels' = <<>>
    /\ exc' = "none"
    /\ printed' = <<>>
    /\ UNCHANGED publication_date

(* ---------------------------- the program ------------------------------ *)
Init ==
    /\ publication_date = None
    /\ op = "init"
    /\ response = None
    /\ data = None
    /\ fuels = <<>>
    /\ exc = "none"
    /\ printed = <<>>
    /\ date = None

Next ==
    \/ \E resp \in Responses : GetFuelPrices(resp)
    \/ \E d \in SampleData : CallParseData(d)
    \/ GetDate

Spec == Init /\ [][Next]_vars

(* ---------------- parse_data as a function of its input ---------------- *)
InitParse ==
    /\ publication_date = None
    /\ op = "pending"
    /\ response = None
    /\ data \in {Some(d) : d \in StructDocs \cup TypeDocs \cup {Malformed, Empty}}
    /\ fuels = <<>>
    /\ exc = "none"
    /\ printed = <<>>
    /\ date = None

NextParse == op = "pending" /\ CallParseData(data[1])

SpecParse == InitParse /\ [][NextParse]_vars

(* ---------------------------- properties ------------------------------- *)
\* parse_data was invoked by the last operation and has finished
ParseCalled == op \in {"parse_data", "get_fuel_prices"} /\ data # None

Max(S) == CHOOSE m \in S : \A n \in S : n <= m
ImageTags == {"image", "image2"}
ElementIndexes(item) == {j \in 1..Len(item) : item[j].nodeType = "ELEMENT"}
ChildTags(item) == {item[j].tagName : j \in ElementIndexes(item)}
LastChild(item, tag) == item[Max({j \in ElementIndexes(item) : item[j].tagName = tag})]
\* the text of the (last) child element with this tag, "" when it has none
TextOf(item, tag) ==
    IF LastChild(item, tag).childNodes = <<>> THEN <<>>
    ELSE LastChild(item, tag).childNodes[1].nodeValue

\* the rule of the specification, step by step over positions
RECURSIVE RefReplaceAll(_, _, _, _)
RefReplaceAll(s, i, old, new) ==
    IF i > Len(s) THEN <<>>
    ELSE IF i + Len(old) - 1 <= Len(s) /\ \A k \in 1..Len(old) : s[i + k - 1] = old[k]
         THEN new \o RefReplaceAll(s, i + Len(old), old, new)
         ELSE <<s[i]>> \o RefReplaceAll(s, i + 1, old, new)
RefStripSuffix(s) ==
    IF Len(s) >= 2 /\ s[Len(s) - 1] = " " /\ s[Len(s)] = "S" THEN SubSeq(s, 1, Len(s) - 2) ELSE s
RefTitleCase(s) ==
    [i \in 1..Len(s) |->
        IF i = 1 \/ ~IsCased(s[i - 1]) THEN ToUpper(s[i]) ELSE ToLower(s[i])]
RefRule(t) ==
    RefTitleCase(RefStripSuffix(
        RefReplaceAll(RefReplaceAll(t, 1, <<" ", "S", " ">>, <<" ">>), 1, <<" ", "E", "V", "O">>, <<>>)))

\* the record the specification describes for one item
ExpectedRecord(item) ==
    [k \in ChildTags(item) \ ImageTags |->
        IF k = "type" THEN RefRule(TextOf(item, k)) ELSE TextOf(item, k)]

\* the update_date step of parse_data is reached and reads a text
ReadsUpdateDate(d) ==
    d.kind = "xml" /\ d.update_date # <<>> /\ d.update_date[1].childNodes # <<>>

\* a document of the wire schema: one update_date with a text, items whose
\* children are elements with a text, empty image elements, or whitespace
SchemaValid(d) ==
    /\ d.kind = "xml"
    /\ Len(d.update_date) = 1
    /\ d.update_date[1].childNodes # <<>>
    /\ \A i \in 1..Len(d.item) : \A j \in 1..Len(d.item[i]) :
          \/ d.item[i][j].nodeType = "TEXT"
          \/ d.item[i][j].childNodes # <<>>
          \/ d.item[i][j].tagName \in ImageTags

\* C1: for every document of the wire schema (whitespace between the child
\* elements included) parse_data returns one record per item element, the
\* i-th record built from the i-th item.
C1_RecordPerItem ==
    (ParseCalled /\ SchemaValid(data[1])) =>
        /\ exc = "none"
        /\ Len(fuels) = Len(data[1].item)
        /\ \A i \in 1..Len(fuels) : fuels[i] = ExpectedRecord(data[1].item[i])

\* C2: the clean-up of the type is idempotent: applied to a type value that
\* parse_data returned, it gives that value again.
C2_Idempotent ==
    (ParseCalled /\ exc = "none") =>
        \A i \in 1..Len(fuels) :
            "type" \in DOMAIN fuels[i] => CleanType(fuels[i]["type"]) = fuels[i]["type"]

\* C3: a call of parse_data, returning or raising, leaves the class field
\* _publication_date as it was.
C3_NoSharedStateMutation ==
    [][data' # None => publication_date' = publication_date]_vars

\* C4: a document without update_date element makes parse_data fail with
\* MissingFieldError, and no list is returned.
C4_MissingFieldError ==
    (ParseCalled /\ data[1].kind = "xml" /\ data[1].update_date = <<>>) =>
        exc = "MissingFieldError" /\ fuels = <<>>

\* C5: a child element of an item (not image, image2) without text content
\* does not make parse_data raise: the record maps its tag to "".
C5_EmptyTextIsEmptyString ==
    (/\ ParseCalled
     /\ ReadsUpdateDate(data[1])
     /\ \A i \in 1..Len(data[1].item) : ElementIndexes(data[1].item[i]) = 1..Len(data[1].item[i])) =>
        /\ exc = "none"
        /\ Len(fuels) = Len(data[1].item)
        /\ \A i \in 1..Len(fuels) : \A k \in ChildTags(data[1].item[i]) \ ImageTags :
              LastChild(data[1].item[i], k).childNodes = <<>> =>
                  k \in DOMAIN fuels[i] /\ fuels[i][k] = <<>>

\* C6: when the response status is not 200, get_fuel_prices prints the
\* diagnostic line (status code and URL), does not call parse_data, returns
\* the empty list and raises nothing.
C6_Non200GivesEmptyList ==
    (op = "get_fuel_prices" /\ response[1].status_code # 200) =>
        /\ printed = <<[status_code |-> response[1].status_code, url |-> URL]>>
        /\ data = None
        /\ fuels = <<>>
        /\ exc = "none"

C6_Witness ==
    /\ op = "get_fuel_prices"
    /\ response[1].status_code = 204
    /\ SchemaValid(response[1].content)
    /\ response[1].content.item # <<>>
    /\ printed # <<>>
    /\ fuels = <<>>

\* C7: a record whose item has a type child has a non-empty 'type' value, and
\* a record lacks the key 'type' only when its item has no type child.
C7_TypeNonEmpty ==
    (ParseCalled /\ exc = "none") =>
        \A i \in 1..Len(fuels) :
            IF "type" \in ChildTags(data[1].item[i])
            THEN "type" \in DOMAIN fuels[i] /\ fuels[i]["type"] # <<>>
            ELSE "type" \notin DOMAIN fuels[i]

\* C8: no record returned by parse_data has a key 'image' or 'image2'.
C8_NoImageKeys ==
    \A i \in 1..Len(fuels) : DOMAIN fuels[i] \cap ImageTags = {}

C8_Witness ==
    /\ ParseCalled
    /\ exc = "none"
    /\ Len(fuels) = 2
    /\ data[1].item[1] = <<EmptyElem("image"), Elem("today", Price)>>
    /\ data[1].item[2] = <<Elem("today", Price2), Elem("image2", ImageUrl)>>
    /\ fuels[1] # EmptyDict

\* C9: the 'type' value of a returned record is the rule of the
\* specification applied to the source text (replace ' S ' by ' ', remove
\* ' EVO', strip a trailing ' S', title-case), the three examples give the
\* stated names, and every other field keeps its source text.
C9_TypeRuleAndFieldsPreserved ==
    (ParseCalled /\ exc = "none") =>
        /\ Len(fuels) = Len(data[1].item)
        /\ \A i \in 1..Len(fuels) :
              /\ fuels[i] = ExpectedRecord(data[1].item[i])
              /\ "type" \in DOMAIN fuels[i] =>
                    /\ TextOf(data[1].item[i], "type") = Gasohol91S => fuels[i]["type"] = Gasohol91
                    /\ TextOf(data[1].item[i], "type") = DieselEVO => fuels[i]["type"] = Diesel
                    /\ TextOf(data[1].item[i], "type") = gasohol_e20 => fuels[i]["type"] = GasoholE20

C9_Witness ==
    /\ ParseCalled
    /\ exc = "none"
    /\ data[1].item = <<<<Elem("type", Gasohol91S), Elem("today", Price)>>>>
    /\ fuels = <<[type |-> Gasohol91, today |-> Price]>>

\* C10: _publication_date (the value get_date returns) is None at the start;
\* every parse_data call that reads an update_date text replaces it by that
\* text, also when the call then raises while building records; every other
\* operation (a get_fuel_prices that gets a non-200 response, a parse_data
\* that raises before the text is read) leaves it in place.
C10_DateOfLastRead ==
    /\ publication_date = None
    /\ [][/\ (data' # None /\ ReadsUpdateDate(data'[1])) =>
                publication_date' = Some(data'[1].update_date[1].childNodes[1].nodeValue)
          /\ ~(data' # None /\ ReadsUpdateDate(data'[1])) =>
                publication_date' = publication_date
          /\ op' = "get_date" => date' = publication_date]_vars

C10_Witness ==
    /\ op = "parse_data"
    /\ exc = "AttributeError"
    /\ ReadsUpdateDate(data[1])
    /\ publication_date = Some(Date2)

====
